---- MODULE Spec2Model ----
(***************************************************************************)
(* A model of the motif audio engine: the sample-accurate evaluator        *)
(* (motif-engine/src/graph.rs), the control transport and the audio        *)
(* callback (motif-engine/src/control.rs, motif/src/main.rs), the Pulse   *)
(* synthesizer (motif-pulse/src/synth.rs, voice.rs, envelope.rs), the      *)
(* AudioBuffer, Tick and Clock (buffer.rs, tick.rs, clock.rs) and the      *)
(* App's key handling (motif-ui/src/app.rs).                               *)
(***************************************************************************)
EXTENDS Integers, Sequences, FiniteSets, TLC

VARIABLES
    frames,       \* AudioBuffer.frames: the prepared frame count
    scheduled,    \* the ScheduledEvent list handed to evaluate_node
    cursor,       \* evaluate_node: the local `cursor`
    next_event,   \* evaluate_node: index of the next element of `for event in events`
    log,          \* the calls made on the node, in order (the SpyNode log of graph.rs)
    pc,           \* position of the audio thread
    queue,        \* the rtrb ring buffer of RoutedEvent, oldest first
    sends,        \* number of send_midi calls made so far by the control thread
    send_result,  \* what the last send_midi call returned
    rejected,     \* history: the events whose send_midi returned BufferFull
    start_queue,  \* history: the queue contents when the current callback started
    synth,        \* the Pulse synthesizer (struct Pulse of synth.rs)
    stamped,      \* history: the ages given to voices since the last reset
    ops,          \* history: number of events and calls the synth has taken
    output,       \* the AudioBuffer the synth renders into: per frame <<ch 0, ch 1>>
    envelope,     \* a single Envelope driven through its own methods
    calls,        \* history: number of trigger/release/adsr/reset calls made on it
    buffer,       \* an AudioBuffer (struct AudioBuffer of buffer.rs)
    other,        \* the AudioBuffer handed to mix_from
    interleaved,  \* an interleaved destination: the host's `out` of main.rs
    channels,     \* main.rs: the host's channel count
    buffer_history, \* history: the calls made on `buffer`
    input,        \* the arguments of a call of a Tick or Clock function
    result,       \* what the calls made with `input` returned
    mode,         \* App.mode (app.rs:16)
    active_notes, \* App.active_notes: the notes currently held (app.rs:21)
    app_pc,       \* position of the control thread inside App::update
    sent,         \* send_midi: the RoutedEvent of the last call (control.rs:24)
    applied       \* history: the events handed to the node, over all callbacks

evalVars == <<frames, scheduled, cursor, next_event, log, pc>>
transportVars == <<queue, sends, send_result, rejected, start_queue>>
synthVars == <<synth, stamped, ops, output>>
envVars == <<envelope, calls>>
bufferVars == <<buffer, other, interleaved, channels, buffer_history>>
calcVars == <<input, result>>
appVars == <<mode, active_notes, app_pc, sent>>
vars == <<evalVars, transportVars, synthVars, envVars, bufferVars, calcVars, appVars,
          applied>>

\* ------------------------------------------------------------------ bounds
MaxFrames == 3
MaxEvents == 3
\* The capacities of main.rs, scaled down so that the full queue, the overfull
\* event list and the oversized host buffer are all reached:
\* RingBuffer::new(1024), Vec::with_capacity(128), AudioBuffer::new(2, 8192).
QueueCapacity == 4
ScheduledCapacity == 2
BufferMaxFrames == 2

\* The voice pool of synth.rs ([Voice; 8]), scaled down so that a full pool
\* and a steal are reached; the pitches an event may carry are one more than
\* the pool holds.
NumVoices == 2
\* The number of events and calls the synth takes in one run (this also keeps
\* the u64 counter next_age far from its width).
MaxOps == 5
\* Fixed-point unit: the envelope level 1.0.
LevelOne == 8
\* The number of trigger, release, adsr and reset calls made on the single
\* envelope in one run; tick() calls are not limited.
MaxCalls == 4
\* The number of calls made on the single AudioBuffer in one run.
MaxBufferCalls == 4
\* The most channels the host's output configuration has.
MaxHostChannels == 3
\* The width of the u64 a Tick holds, scaled down so that its largest values
\* are reached.
TickBits == 4
\* The precision of an f64 (53 bits), scaled down, and the largest tick the
\* clock converts: every tick and sample count converted stays below
\* 2^MantissaBits, where the conversion of an integer to f64 is exact, as it
\* is below 2^53.
MantissaBits == 14
MaxClockTick == 100

\* ------------------------------------------------------- envelope.rs: Envelope
\* Times are held in samples (seconds * sample_rate); 0 stands for a time
\* below 1e-5 s.  Levels are in units of 1 / LevelOne.
EnvelopeDefault ==
    [state |-> "Idle", level |-> 0, attack |-> 0, decay |-> 0,
     sustain |-> 0, release |-> 0, release_start |-> 0]

EnvTrigger(env) == [env EXCEPT !.state = "Attack", !.level = 0]

EnvRelease_noCapture(env) == [env EXCEPT !.state = "Release"]
EnvRelease(env) == [env EXCEPT !.release_start = env.level, !.state = "Release"]

EnvAdsr_keep(env, attack, decay, sustain, release) == env
EnvAdsr(env, attack, decay, sustain, release) ==
    [env EXCEPT !.attack = attack, !.decay = decay,
                !.sustain = sustain, !.release = release]

Clamp_none(x, lo, hi) == x
Clamp(x, lo, hi) == IF x < lo THEN lo ELSE IF x > hi THEN hi ELSE x

\* `time < 1e-5`
Instant(time) == time = 0

\* The per-sample step `span / (time * sample_rate)` of a ramp, on the level
\* grid: the quotient of a positive span is positive, as it is in f64, so it is
\* rounded up to the grid and never down to 0.
StepOf_zero(span, time) == 0
StepOf_unit(span, time) == 1
StepOf(span, time) == (span + time - 1) \div time

EnvTick_noJump(env) ==
    CASE env.state = "Attack" -> [env EXCEPT !.level = LevelOne]
      [] env.state = "Decay" -> [env EXCEPT !.level = env.sustain]
      [] env.state = "Release" -> [env EXCEPT !.level = 0]
      [] OTHER -> env

EnvTick(env) ==
    CASE env.state = "Idle" -> env
      [] env.state = "Attack" ->
            IF Instant(env.attack)
                THEN [env EXCEPT !.level = LevelOne, !.state = "Decay"]
                ELSE LET l == env.level + StepOf(LevelOne, env.attack) IN
                     IF l > LevelOne
                        THEN [env EXCEPT !.level = Clamp(l, 0, LevelOne),
                                         !.state = "Decay"]
                        ELSE [env EXCEPT !.level = l]
      [] env.state = "Decay" ->
            IF Instant(env.decay)
                THEN [env EXCEPT !.level = env.sustain, !.state = "Sustain"]
                ELSE LET l == env.level - StepOf(LevelOne - env.sustain, env.decay) IN
                     IF l < env.sustain
                        THEN [env EXCEPT !.level = Clamp(l, 0, env.sustain),
                                         !.state = "Sustain"]
                        ELSE [env EXCEPT !.level = l]
      [] env.state = "Sustain" -> env
      [] env.state = "Release" ->
            IF Instant(env.release)
                THEN [env EXCEPT !.level = 0, !.state = "Idle"]
                ELSE LET l == env.level - StepOf(env.release_start, env.release) IN
                     IF l < 0
                        THEN [env EXCEPT !.level = 0, !.state = "Idle"]
                        ELSE [env EXCEPT !.level = l]

EnvIsIdle(env) == env.state = "Idle"
EnvIsReleasing_never(env) == FALSE
EnvIsReleasing(env) == env.state = "Release"
EnvReset(env) == [env EXCEPT !.state = "Idle", !.level = 0]

\* ------------------------------------------------------------ voice.rs: Voice
\* Option<Note>: None is the empty sequence, Some(n) the sequence <<n>>.
None == <<>>
Some(n) == <<n>>

Voices == 1..NumVoices
Notes == 1..(NumVoices + 1)
\* The NoteOn events sent to the synth: every pitch, at Velocity::MAX or at a
\* middle velocity.
NoteOnInputs == {<<n, IF n % 2 = 1 THEN 127 ELSE 64>> : n \in Notes}

\* Note::to_freq_f64 over sample_rate, in half cycles per sample: a higher
\* pitch advances the phase faster.
FreqOf(note) == note

VoiceDefault ==
    [phase |-> 0, frequency |-> 0, velocity |-> 0,
     envelope |-> EnvelopeDefault, note |-> None, age |-> 0]

VoiceTrigger_keepPhase(v, note, velocity, frequency, age) ==
    [v EXCEPT !.note = Some(note), !.velocity = velocity,
              !.frequency = frequency, !.age = age,
              !.envelope = EnvTrigger(v.envelope)]
VoiceTrigger(v, note, velocity, frequency, age) ==
    [v EXCEPT !.phase = 0, !.note = Some(note), !.velocity = velocity,
              !.frequency = frequency, !.age = age,
              !.envelope = EnvTrigger(v.envelope)]

VoiceRelease(v) == [v EXCEPT !.envelope = EnvRelease(v.envelope)]
VoiceIsActive(v) == ~EnvIsIdle(v.envelope)
VoiceReset_noteOnly(v) == [v EXCEPT !.note = None]
VoiceReset(v) == [v EXCEPT !.note = None, !.envelope = EnvReset(v.envelope)]

\* Voice::render: advance the phase by one sample, wrap it into [0, 1) and
\* tick the envelope.  The phase is held in half cycles.
VoiceRender(v) ==
    [v EXCEPT !.phase = (v.phase + v.frequency) % 2,
              !.envelope = EnvTick(v.envelope)]

\* voice.rs:32  `if self.phase > duty_cycle { 1.0 } else { -1.0 }`
PulseWave_flat(phase, duty_cycle) == 0
PulseWave(phase, duty_cycle) == IF phase > duty_cycle THEN 1 ELSE -1

\* The sample Voice::render returns (voice.rs:34): the pulse times the ticked
\* envelope level times the velocity, in units of 1 / (LevelOne * 127).
VoiceSample(v, duty_cycle) ==
    LET rendered == VoiceRender(v) IN
       PulseWave(rendered.phase, duty_cycle) * rendered.envelope.level * v.velocity

\* ------------------------------------------------------------ synth.rs: Pulse
\* The shared ADSR parameters a Pulse may hold (pub fields; Pulse::new sets
\* 0.01 s, 0.1 s, 0.7, 0.15 s), in samples and level units.
DefaultAdsr ==
    [attack |-> 2, decay |-> 2, sustain |-> LevelOne \div 2, release |-> 2]
AdsrPresets ==
    {DefaultAdsr,
     [attack |-> 0, decay |-> 2, sustain |-> LevelOne, release |-> 0]}

PulseNew(adsr) ==
    [voices |-> [i \in Voices |-> VoiceDefault],
     duty_cycle |-> 1,
     attack |-> adsr.attack, decay |-> adsr.decay,
     sustain |-> adsr.sustain, release |-> adsr.release,
     next_age |-> 0]

Min(S) == CHOOSE x \in S : \A y \in S : x <= y

\* `.position(|v| !v.is_active())`: the first inactive voice.
FirstInactive_last(vs) ==
    CHOOSE i \in Voices :
        /\ ~VoiceIsActive(vs[i])
        /\ \A j \in Voices : ~VoiceIsActive(vs[j]) => j <= i
FirstInactive(vs) == Min({i \in Voices : ~VoiceIsActive(vs[i])})

\* `.min_by_key(|(_, v)| v.age)`: the first voice of minimum age.
OldestVoice_newest(vs) ==
    Min({i \in Voices : \A j \in Voices : vs[i].age >= vs[j].age})
OldestVoice(vs) ==
    Min({i \in Voices : \A j \in Voices : vs[i].age <= vs[j].age})

\* synth.rs:253-265: the voice a NoteOn goes to.
VoiceIndex(vs) ==
    IF \E i \in Voices : ~VoiceIsActive(vs[i])
        THEN FirstInactive(vs)
        ELSE OldestVoice(vs)

\* synth.rs:273  `self.next_age += 1`
AgeAfterNoteOn_same(age) == age
AgeAfterNoteOn(age) == age + 1

\* handle_event, MidiEvent::NoteOn (synth.rs:251-274).
PulseNoteOn(p, note, velocity) ==
    LET voice_index == VoiceIndex(p.voices)
        voice == VoiceTrigger(p.voices[voice_index], note, velocity,
                              FreqOf(note), p.next_age)
    IN [p EXCEPT !.voices[voice_index] =
                     [voice EXCEPT !.envelope =
                         EnvAdsr(voice.envelope, p.attack, p.decay,
                                 p.sustain, p.release)],
                 !.next_age = AgeAfterNoteOn(p.next_age)]

\* handle_event, MidiEvent::NoteOff (synth.rs:275-282).
PulseNoteOff(p, note) ==
    [p EXCEPT !.voices =
        [i \in Voices |->
            IF p.voices[i].note = Some(note) /\ ~EnvIsReleasing(p.voices[i].envelope)
                THEN VoiceRelease(p.voices[i])
                ELSE p.voices[i]]]

\* One frame of Pulse::render (synth.rs:233-245): every active voice renders
\* one sample, idle voices are skipped.
PulseRenderFrame(p) ==
    [p EXCEPT !.voices =
        [i \in Voices |->
            IF VoiceIsActive(p.voices[i]) THEN VoiceRender(p.voices[i])
                                          ELSE p.voices[i]]]

\* Pulse::render over a frame range of n frames.
RECURSIVE PulseRender(_, _)
PulseRender(p, n) == IF n = 0 THEN p ELSE PulseRender(PulseRenderFrame(p), n - 1)

\* synth.rs:12  `const GAIN: f64 = 0.15`, in hundredths.
GAIN == 15

\* synth.rs:234-240: the sum over the voices 1..i of what the active ones render.
RECURSIVE VoiceSum(_, _)
VoiceSum(p, i) ==
    IF i = 0 THEN 0
    ELSE VoiceSum(p, i - 1)
           + (IF VoiceIsActive(p.voices[i])
                 THEN VoiceSample(p.voices[i], p.duty_cycle) ELSE 0)

\* synth.rs:242  `let out = (sum * GAIN) as f32`, in units of
\* 1 / (100 * LevelOne * 127).
FrameOut(p) == VoiceSum(p, NumVoices) * GAIN

\* The output buffer of the synth: AudioBuffer::new(2, n) then prepare(n),
\* frames 0..n-1, every sample 0.0.
OutputFrames == BufferMaxFrames
OutputNew == [frame \in 0..(OutputFrames - 1) |-> <<0, 0>>]
\* The non-empty frame ranges lo..hi the synth may be asked to render.
FrameRanges == {r \in (0..OutputFrames) \X (0..OutputFrames) : r[1] < r[2]}

\* synth.rs:243-244: the sample goes to channel 0 and to channel 1.
WriteFrame_spill(out, frame, sample) ==
    [f \in DOMAIN out |-> IF f >= frame THEN <<sample, sample>> ELSE out[f]]
WriteFrame_left(out, frame, sample) ==
    [out EXCEPT ![frame] = <<sample, out[frame][2]>>]
WriteFrame(out, frame, sample) == [out EXCEPT ![frame] = <<sample, sample>>]

\* The buffer after Pulse::render(lo..hi) from the pulse p.
RECURSIVE OutputAfter(_, _, _, _)
OutputAfter(p, out, lo, hi) ==
    IF lo >= hi THEN out
    ELSE OutputAfter(PulseRenderFrame(p), WriteFrame(out, lo, FrameOut(p)),
                     lo + 1, hi)

\* Pulse::reset (synth.rs:287-293).
PulseReset(p) ==
    [p EXCEPT !.voices = [i \in Voices |-> VoiceReset(p.voices[i])],
              !.next_age = 0]

\* The events and calls the synth takes as an AudioNode.
NoteOn(note, velocity) ==
    /\ ops < MaxOps
    /\ synth' = PulseNoteOn(synth, note, velocity)
    /\ stamped' = stamped \cup {synth.next_age}
    /\ ops' = ops + 1
    /\ UNCHANGED <<output, evalVars, transportVars, envVars, bufferVars, calcVars, appVars, applied>>

NoteOff(note) ==
    /\ ops < MaxOps
    /\ synth' = PulseNoteOff(synth, note)
    /\ ops' = ops + 1
    /\ UNCHANGED <<stamped, output, evalVars, transportVars, envVars, bufferVars, calcVars, appVars, applied>>

\* Pulse::render(inputs, output, lo..hi, sample_rate).
RenderRange(lo, hi) ==
    /\ ops < MaxOps
    /\ ops' = ops + 1
    /\ UNCHANGED <<stamped, evalVars, transportVars, envVars, bufferVars, calcVars, appVars, applied>>
    /\ synth' = PulseRender(synth, hi - lo)
    /\ output' = OutputAfter(synth, output, lo, hi)

Render == \E r \in FrameRanges : RenderRange(r[1], r[2])

\* The owner of the synth assigns its pub fields attack, decay, sustain and
\* release (synth.rs:21-24).
SetAdsr(adsr) ==
    /\ ops < MaxOps
    /\ synth' = [synth EXCEPT !.attack = adsr.attack, !.decay = adsr.decay,
                              !.sustain = adsr.sustain, !.release = adsr.release]
    /\ ops' = ops + 1
    /\ UNCHANGED <<stamped, output, evalVars, transportVars, envVars, bufferVars, calcVars, appVars, applied>>

Reset ==
    /\ ops < MaxOps
    /\ synth' = PulseReset(synth)
    /\ stamped' = {}
    /\ ops' = ops + 1
    /\ UNCHANGED <<output, evalVars, transportVars, envVars, bufferVars, calcVars, appVars, applied>>

\* ---------------------------------------------------- buffer.rs: AudioBuffer
\* data[ch][i] is sample i of channel ch, both counted from 0; samples are
\* exact numbers.
AudioBufferNew(chs, max_frames) ==
    [data |-> [ch \in 0..(chs - 1) |-> [i \in 0..(max_frames - 1) |-> 0]],
     frames |-> 0]

\* channels(): `self.data.len()`
Channels(buf) == Cardinality(DOMAIN buf.data)
\* The allocated length of every channel.
Capacity(buf) == Cardinality(DOMAIN buf.data[0])

\* prepare(frames), for frames within the allocated length.
Prepare_full(buf, n) ==
    [data |-> [ch \in DOMAIN buf.data |-> [i \in DOMAIN buf.data[ch] |-> 0]],
     frames |-> n]
Prepare(buf, n) ==
    [data |-> [ch \in DOMAIN buf.data |->
                  [i \in DOMAIN buf.data[ch] |->
                      IF i < n THEN 0 ELSE buf.data[ch][i]]],
     frames |-> n]

\* channel(ch): the slice `&self.data[ch][..self.frames]`.
Channel(buf, ch) == [i \in 0..(buf.frames - 1) |-> buf.data[ch][i]]

\* The sample indices of data[ch] that the slice an accessor returns covers.
\* channel(ch) and channel_mut(ch): `[..self.frames]`.
ChannelSlice(buf, ch) == 0..(buf.frames - 1)
\* channel_range_mut(channel, range): `[range]`; the range lo..hi is in bounds
\* when lo <= hi <= the allocated length.
ChannelRangeSlice(buf, channel, lo, hi) == lo..(hi - 1)
\* two_channels_mut(ch_a, ch_b): `[..frames]` of both channels.
TwoChannelsSlices(buf, ch_a, ch_b) == <<0..(buf.frames - 1), 0..(buf.frames - 1)>>

\* A store through a slice: `slice[k] = v` at sample index i of channel ch.
StoreSample(buf, ch, i, v) == [buf EXCEPT !.data[ch][i] = v]

\* mix_from(other): `destination[idx] += source[idx]` for idx < self.frames.
MixFrom_overwrite(buf, src) ==
    [buf EXCEPT !.data =
        [ch \in DOMAIN buf.data |->
            [i \in DOMAIN buf.data[ch] |->
                IF i < buf.frames THEN src.data[ch][i] ELSE buf.data[ch][i]]]]
MixFrom(buf, src) ==
    [buf EXCEPT !.data =
        [ch \in DOMAIN buf.data |->
            [i \in DOMAIN buf.data[ch] |->
                IF i < buf.frames THEN buf.data[ch][i] + src.data[ch][i]
                                  ELSE buf.data[ch][i]]]]

\* buffer.rs:93  `output[frame * channels + channel]`
InterleavedIndex_planar(frame, channel, chs) == channel * chs + frame
InterleavedIndex(frame, channel, chs) == frame * chs + channel

\* write_interleaved: the inner loop `for channel in 0..channels`.
RECURSIVE InterleaveChannels(_, _, _, _)
InterleaveChannels(buf, dest, frame, channel) ==
    IF channel >= Channels(buf) THEN dest
    ELSE InterleaveChannels(
             buf,
             [dest EXCEPT ![InterleavedIndex(frame, channel, Channels(buf))] =
                                buf.data[channel][frame]],
             frame, channel + 1)

\* write_interleaved: the outer loop `for frame in 0..self.frames`.
RECURSIVE InterleaveFrames(_, _, _)
InterleaveFrames(buf, dest, frame) ==
    IF frame >= buf.frames THEN dest
    ELSE InterleaveFrames(buf, InterleaveChannels(buf, dest, frame, 0), frame + 1)

WriteInterleaved(buf, dest) == InterleaveFrames(buf, dest, 0)

\* What a destination holds before it is filled: not a sample any buffer holds.
Stale == 99
\* A destination of n samples, none written yet.
Unfilled(n) == [k \in 0..(n - 1) |-> Stale]

\* The buffer variables in a run that makes no call on them: the buffer of
\* main.rs:33, AudioBuffer::new(2, 8192), and nothing sent to a host.
NoHistory == [calls |-> 0, mixes |-> 0, stored |-> {}]
BufferUnused ==
    /\ buffer = AudioBufferNew(2, BufferMaxFrames)
    /\ other = AudioBufferNew(2, BufferMaxFrames)
    /\ interleaved = Unfilled(0)
    /\ channels = 2
    /\ buffer_history = NoHistory

\* The Tick and Clock variables in a run that calls none of their functions.
NoInput == [a |-> 0, b |-> 0, overflow_checks |-> FALSE, bpm |-> 120]
NoResult == [op |-> "none", arg |-> 0, panicked |-> FALSE, value |-> 0]
CalcUnused ==
    /\ input = NoInput
    /\ result = NoResult

\* The App before its first message (app.rs:38-48) and before any send_midi.
NoRouted == [track_id |-> 0, event |-> None]
AppUnused ==
    /\ mode = "Normal"
    /\ active_notes = {}
    /\ app_pc = "update"
    /\ sent = NoRouted

\* ------------------------------------------------------------- evaluate_node
\* One entry of the node's call log: render(lo..hi) or handle_event(event).
RenderCall(lo, hi) == [kind |-> "render", lo |-> lo, hi |-> hi, event |-> 0]
EventCall(e) == [kind |-> "event", lo |-> 0, hi |-> 0, event |-> e]

ScheduledEvent(offset, e) == [sample_offset |-> offset, event |-> e]

\* graph.rs:20  `if offset > cursor`
RendersBeforeEvent_ge(offset, cur) == offset >= cur
RendersBeforeEvent(offset, cur) == offset > cur

\* graph.rs:31  `if cursor < total_frames`
RendersTail_never(cur, total_frames) == FALSE
RendersTail(cur, total_frames) == cur < total_frames

\* graph.rs:27  `cursor = offset`
CursorAfterEvent(offset, cur) == offset

\* graph.rs:19-25: what one loop iteration calls on the node.
CallsForEvent_swapped(ev, cur) ==
    <<EventCall(ev.event)>> \o
    (IF RendersBeforeEvent(ev.sample_offset, cur)
        THEN <<RenderCall(cur, ev.sample_offset)>> ELSE <<>>)
CallsForEvent(ev, cur) ==
    (IF RendersBeforeEvent(ev.sample_offset, cur)
        THEN <<RenderCall(cur, ev.sample_offset)>> ELSE <<>>)
    \o <<EventCall(ev.event)>>

\* One iteration of `for event in events` (graph.rs:16-28).
EvalEvent ==
    /\ pc = "eval"
    /\ next_event <= Len(scheduled)
    /\ LET ev == scheduled[next_event] IN
          /\ log' = log \o CallsForEvent(ev, cursor)
          /\ cursor' = CursorAfterEvent(ev.sample_offset, cursor)
          /\ applied' = Append(applied, ev.event)
    /\ next_event' = next_event + 1
    /\ UNCHANGED <<frames, scheduled, pc, transportVars, synthVars, envVars, bufferVars, calcVars, appVars>>

\* The loop is over: render the remaining frames and return (graph.rs:30-34).
EvalTail(return_pc) ==
    /\ pc = "eval"
    /\ next_event > Len(scheduled)
    /\ log' = IF RendersTail(cursor, frames)
                 THEN Append(log, RenderCall(cursor, frames)) ELSE log
    /\ pc' = return_pc
    /\ UNCHANGED <<frames, scheduled, cursor, next_event, transportVars, synthVars, envVars, calcVars, appVars, applied>>

\* -------------------------------------------------- SpecEval: evaluate_node
\* evaluate_node on every event list of at most MaxEvents events with offsets
\* in 0..MaxFrames, sorted or not, in range or not; event i carries payload i.
OffsetLists == UNION {[1..n -> 0..MaxFrames] : n \in 0..MaxEvents}

InitEval ==
    /\ frames \in 0..MaxFrames
    /\ \E offs \in OffsetLists :
          scheduled = [i \in DOMAIN offs |-> ScheduledEvent(offs[i], i)]
    /\ cursor = 0
    /\ next_event = 1
    /\ log = <<>>
    /\ pc = "eval"
    /\ queue = <<>>
    /\ sends = 0
    /\ send_result = "none"
    /\ rejected = {}
    /\ start_queue = <<>>
    /\ synth = PulseNew(DefaultAdsr)
    /\ stamped = {}
    /\ ops = 0
    /\ output = OutputNew
    /\ envelope = EnvelopeDefault
    /\ calls = 0
    /\ AppUnused
    /\ applied = <<>>
    /\ BufferUnused
    /\ CalcUnused

\* The node of graph.rs's tests (SpyNode) only logs its calls: no sample is
\* written.
EvalReturn == EvalTail("returned") /\ UNCHANGED bufferVars

NextEval == EvalEvent \/ EvalReturn

SpecEval == InitEval /\ [][NextEval]_vars

\* ---------------------------------------------- properties of evaluate_node
\* The evaluator's documented precondition: events sorted ascending by offset,
\* every offset within [0, frames].
SortedByOffset(evs) ==
    \A i, j \in DOMAIN evs : i < j => evs[i].sample_offset <= evs[j].sample_offset
OffsetsInRange(evs, n) == \A i \in DOMAIN evs : evs[i].sample_offset <= n
EvalPrecondition == SortedByOffset(scheduled) /\ OffsetsInRange(scheduled, frames)

IsRender(c) == c.kind = "render"
IsEvent(c) == c.kind = "event"
RenderCalls == SelectSeq(log, IsRender)
EventCalls == SelectSeq(log, IsEvent)
EventPositions == {p \in DOMAIN log : IsEvent(log[p])}
\* The offset at which the event with payload e was scheduled.
OffsetOf(e) ==
    scheduled[CHOOSE k \in DOMAIN scheduled : scheduled[k].event = e].sample_offset
\* The frames covered by the render calls logged at the positions in ps.
FramesRenderedAt(ps) ==
    {f \in 0..(MaxFrames + 1) :
        \E q \in ps : IsRender(log[q]) /\ log[q].lo <= f /\ f < log[q].hi}
Offsets == {scheduled[k].sample_offset : k \in DOMAIN scheduled}

\* C1: for a sorted, in-range event list, handle_event is called exactly once
\* per event, in list order, and the call for an event at offset o comes after
\* every frame below o has been rendered and before any frame at or above o is.
C1_EventsAtExactSample ==
    EvalPrecondition =>
        /\ Len(EventCalls) = next_event - 1
        /\ \A i \in DOMAIN EventCalls : EventCalls[i].event = scheduled[i].event
        /\ (pc = "returned" => Len(EventCalls) = Len(scheduled))
        /\ \A p \in EventPositions :
              LET o == OffsetOf(log[p].event) IN
                 /\ FramesRenderedAt(1..(p - 1)) = 0..(o - 1)
                 /\ \A f \in FramesRenderedAt((p + 1)..Len(log)) : f >= o

C1_Witness ==
    /\ pc = "returned" /\ EvalPrecondition
    /\ \E i, j \in DOMAIN scheduled :
          /\ 0 < scheduled[i].sample_offset
          /\ scheduled[i].sample_offset < scheduled[j].sample_offset
          /\ scheduled[j].sample_offset < frames
    /\ Len(EventCalls) = Len(scheduled)

\* C2: for a sorted, in-range event list the render calls of a finished
\* evaluate_node are non-empty, ascending, contiguous and disjoint and cover
\* exactly [0, frames), each frame once; a range boundary is 0, frames or an
\* event offset; no events gives one render(0..frames), or no call when
\* frames = 0.
C2_RendersPartitionBuffer ==
    (pc = "returned" /\ EvalPrecondition) =>
        /\ \A i \in DOMAIN RenderCalls : RenderCalls[i].lo < RenderCalls[i].hi
        /\ (frames = 0 => RenderCalls = <<>>)
        /\ (frames > 0 =>
              /\ RenderCalls # <<>>
              /\ RenderCalls[1].lo = 0
              /\ RenderCalls[Len(RenderCalls)].hi = frames
              /\ \A i \in 1..(Len(RenderCalls) - 1) :
                    RenderCalls[i].hi = RenderCalls[i + 1].lo)
        /\ \A f \in 0..(MaxFrames + 1) :
              Cardinality({q \in DOMAIN log :
                  IsRender(log[q]) /\ log[q].lo <= f /\ f < log[q].hi})
                = (IF f < frames THEN 1 ELSE 0)
        /\ \A i \in DOMAIN RenderCalls :
              {RenderCalls[i].lo, RenderCalls[i].hi} \subseteq {0, frames} \cup Offsets
        /\ (scheduled = <<>> =>
              log = (IF frames > 0 THEN <<RenderCall(0, frames)>> ELSE <<>>))

C2_Witness ==
    /\ pc = "returned" /\ EvalPrecondition
    /\ Len(RenderCalls) >= 3
    /\ Len(scheduled) >= 2

\* C3: events sharing an offset are handled back-to-back with no render call
\* between them, no render call ever has an empty range, an event at offset 0
\* is handled before any render call, and an event at offset frames is handled
\* with no render call after it.
C3_NoEmptyRender ==
    /\ \A q \in DOMAIN log : IsRender(log[q]) => log[q].lo < log[q].hi
    /\ EvalPrecondition =>
          /\ \A p, q \in EventPositions :
                (p < q /\ OffsetOf(log[p].event) = OffsetOf(log[q].event)) =>
                    \A r \in p..q : IsEvent(log[r])
          /\ \A p \in EventPositions :
                /\ (OffsetOf(log[p].event) = 0 =>
                       \A r \in 1..p : IsEvent(log[r]))
                /\ (OffsetOf(log[p].event) = frames =>
                       \A r \in p..Len(log) : IsEvent(log[r]))

C3_Witness ==
    /\ pc = "returned" /\ EvalPrecondition
    /\ \E i \in DOMAIN scheduled :
          /\ i + 1 \in DOMAIN scheduled
          /\ scheduled[i].sample_offset = scheduled[i + 1].sample_offset
          /\ 0 < scheduled[i].sample_offset
          /\ scheduled[i].sample_offset < frames
    /\ \E i \in DOMAIN scheduled : scheduled[i].sample_offset = frames
    /\ Len(RenderCalls) = 2

\* ------------------------------------- control transport and audio callback
\* The control thread makes at most MaxSends send_midi calls; the k-th call
\* carries event k, so that an event is told apart from every other one.
MaxSends == QueueCapacity + 2
\* The channel counts the host may be configured with (main.rs:30).
HostChannels == 1..MaxHostChannels
\* The frame counts the host may ask for: out.len() / channels (main.rs:41).
HostFrames == 0..(BufferMaxFrames + 1)

\* rtrb Producer::push as send_midi uses it (control.rs:29-31): the value is
\* appended when a slot is free, otherwise handed back and mapped to BufferFull.
Push_overwrite(q, e) ==
    IF Len(q) < QueueCapacity
        THEN [queue |-> Append(q, e), result |-> "Ok"]
        ELSE [queue |-> Append(Tail(q), e), result |-> "Ok"]
Push(q, e) ==
    IF Len(q) < QueueCapacity
        THEN [queue |-> Append(q, e), result |-> "Ok"]
        ELSE [queue |-> q, result |-> "BufferFull"]

\* PlaybackControl::send_midi (control.rs:23-32), called by the control thread.
send_midi ==
    /\ sends < MaxSends
    /\ LET e == sends + 1
           r == Push(queue, e) IN
          /\ queue' = r.queue
          /\ send_result' = r.result
          /\ rejected' = IF r.result = "BufferFull" THEN rejected \cup {e} ELSE rejected
    /\ sends' = sends + 1
    /\ UNCHANGED <<evalVars, start_queue, synthVars, envVars, bufferVars, calcVars, appVars, applied>>

\* AudioBuffer::prepare (buffer.rs:23-31): `channel[..frames]` is in bounds
\* only up to the allocated length.
PrepareInBounds(n) == n <= BufferMaxFrames

\* The callback starts (main.rs:40-44): frames = out.len() / channels,
\* buffer.prepare(frames), scheduled.clear().  prepare stores the frame count
\* and then slices every channel, which panics beyond the allocated length.
\* The host hands over `out`, n * channels samples not yet written.
CallbackStart ==
    /\ pc = "idle"
    /\ \E n \in HostFrames :
          /\ frames' = n
          /\ pc' = IF PrepareInBounds(n) THEN "drain" ELSE "panicked"
          /\ scheduled' = IF PrepareInBounds(n) THEN <<>> ELSE scheduled
          /\ buffer' = IF PrepareInBounds(n) THEN Prepare(buffer, n)
                                             ELSE [buffer EXCEPT !.frames = n]
          /\ interleaved' = Unfilled(n * channels)
    /\ log' = <<>>
    /\ start_queue' = queue
    /\ UNCHANGED <<cursor, next_event, queue, sends, send_result, rejected, synthVars, envVars,
                   other, channels, buffer_history, calcVars, appVars, applied>>

\* main.rs:50-53: the popped event is scheduled at sample_offset 0.
ScheduleDrained(routed) == ScheduledEvent(0, routed)

\* One iteration of `while let Ok(routed) = consumer.pop()` (main.rs:46-54).
DrainPop ==
    /\ pc = "drain"
    /\ queue # <<>>
    /\ scheduled' = Append(scheduled, ScheduleDrained(Head(queue)))
    /\ queue' = Tail(queue)
    /\ UNCHANGED <<frames, cursor, next_event, log, pc,
                   sends, send_result, rejected, start_queue, synthVars, envVars, bufferVars, calcVars, appVars, applied>>

\* consumer.pop() finds the queue empty: the loop ends and evaluate_node is
\* entered (main.rs:46, 56; graph.rs:13-14).
DrainDone ==
    /\ pc = "drain"
    /\ queue = <<>>
    /\ cursor' = 0
    /\ next_event' = 1
    /\ pc' = "eval"
    /\ UNCHANGED <<frames, scheduled, log, transportVars, synthVars, envVars, bufferVars, calcVars, appVars, applied>>

\* The samples the synth may put into one frame: silence or sound.
NodeSamples == {0, 1}

\* The node's render(lo..hi) as the buffer sees it (synth.rs:233-245): for
\* every frame of the range one sample, stored to channel 0 and to channel 1;
\* s[frame] is the sample of the frame.
RECURSIVE NodeRender(_, _, _, _)
NodeRender(buf, lo, hi, s) ==
    IF lo >= hi THEN buf
    ELSE NodeRender(StoreSample(StoreSample(buf, 0, lo, s[lo]), 1, lo, s[lo]),
                    lo + 1, hi, s)

\* In the callback the node is the synth, and the drained events all have
\* offset 0: the frames are rendered by the call that follows the loop.
EvalReturnToCallback ==
    /\ EvalTail("copy")
    /\ IF RendersTail(cursor, frames)
          THEN \E s \in [cursor..(frames - 1) -> NodeSamples] :
                  buffer' = NodeRender(buffer, cursor, frames, s)
          ELSE buffer' = buffer
    /\ UNCHANGED <<other, interleaved, channels, buffer_history>>

\* main.rs:60  `if ch < 2 { buffer.channel(ch)[f] } else { 0.0 }`
HostSample(buf, ch, f) == IF ch < 2 THEN Channel(buf, ch)[f] ELSE 0

\* main.rs:59-61  `for ch in 0..channels`
RECURSIVE CopyChannels(_, _, _, _, _)
CopyChannels(buf, dest, f, ch, chs) ==
    IF ch >= chs THEN dest
    ELSE CopyChannels(buf, [dest EXCEPT ![f * chs + ch] = HostSample(buf, ch, f)],
                      f, ch + 1, chs)

\* main.rs:58-62  `for f in 0..frames`
RECURSIVE CopyFrames(_, _, _, _, _)
CopyFrames(buf, dest, f, n, chs) ==
    IF f >= n THEN dest
    ELSE CopyFrames(buf, CopyChannels(buf, dest, f, 0, chs), f + 1, n, chs)

\* The copy into the host's buffer (main.rs:58-62) ends the callback.
CopyOut ==
    /\ pc = "copy"
    /\ pc' = "idle"
    /\ interleaved' = CopyFrames(buffer, interleaved, 0, frames, channels)
    /\ UNCHANGED <<frames, scheduled, cursor, next_event, log, transportVars, synthVars, envVars,
                   buffer, other, channels, buffer_history, calcVars, appVars, applied>>

InitCallback ==
    /\ frames = 0
    /\ scheduled = <<>>
    /\ cursor = 0
    /\ next_event = 1
    /\ log = <<>>
    /\ pc = "idle"
    /\ queue = <<>>
    /\ sends = 0
    /\ send_result = "none"
    /\ rejected = {}
    /\ start_queue = <<>>
    /\ synth = PulseNew(DefaultAdsr)
    /\ stamped = {}
    /\ ops = 0
    /\ output = OutputNew
    /\ envelope = EnvelopeDefault
    /\ calls = 0
    /\ AppUnused
    /\ applied = <<>>
    /\ buffer = AudioBufferNew(2, BufferMaxFrames)
    /\ other = AudioBufferNew(2, BufferMaxFrames)
    /\ interleaved = Unfilled(0)
    /\ channels \in HostChannels
    /\ buffer_history = NoHistory
    /\ CalcUnused

NextCallback ==
    \/ send_midi
    \/ CallbackStart
    \/ DrainPop
    \/ DrainDone
    \/ EvalEvent
    \/ EvalReturnToCallback
    \/ CopyOut

SpecCallback == InitCallback /\ [][NextCallback]_vars

\* ------------------------------------ properties of transport and callback
InSeq(e, q) == \E i \in DOMAIN q : q[i] = e

\* C4: send_midi never waits (it can be taken in every queue state); on a full
\* queue it returns BufferFull, leaves the queue as it is and the event is
\* never delivered; with a free slot it returns Ok and the event becomes the
\* tail of the queue.
C4_SendNeverBlocks ==
    /\ [](sends < MaxSends => ENABLED send_midi)
    /\ [][sends' = sends + 1 =>
            IF Len(queue) = QueueCapacity
                THEN send_result' = "BufferFull" /\ queue' = queue
                ELSE send_result' = "Ok" /\ queue' = Append(queue, sends + 1)]_vars
    /\ [](\A e \in rejected :
            /\ ~InSeq(e, queue)
            /\ \A i \in DOMAIN scheduled : scheduled[i].event # e
            /\ \A p \in DOMAIN log : log[p].event # e)

C4_Witness ==
    /\ send_result = "BufferFull"
    /\ Len(queue) = QueueCapacity
    /\ rejected = {sends}

\* C5: in every callback the events that were queued when it started are all
\* popped, scheduled at sample_offset 0 and handled, in queue order, before
\* the first frame of that callback is rendered.
C5_DrainedBeforeRender ==
    pc \in {"copy", "panicked"} =>
        /\ Len(start_queue) <= Len(scheduled)
        /\ Len(scheduled) <= Len(log)
        /\ \A i \in DOMAIN start_queue :
              /\ scheduled[i] = ScheduledEvent(0, start_queue[i])
              /\ log[i] = EventCall(start_queue[i])
        /\ \A p \in DOMAIN log : IsRender(log[p]) => p > Len(scheduled)

\* C6: the callback cannot fail: whatever frame count the host asks for, the
\* prepared frame count stays within the allocated capacity and no callback
\* ends in a panic.
C6_CallbackCannotFail ==
    /\ frames <= BufferMaxFrames
    /\ pc # "panicked"

\* C7: the scheduled-event list of a callback never grows beyond the capacity
\* it was allocated with at start-up, for every interleaving with the control
\* thread.
C7_ScheduledWithinCapacity == Len(scheduled) <= ScheduledCapacity

\* ------------------------------------------------------ SpecSynth: the Pulse
InitSynth ==
    /\ synth = PulseNew(DefaultAdsr)
    /\ stamped = {}
    /\ ops = 0
    /\ output = OutputNew
    /\ envelope = EnvelopeDefault
    /\ calls = 0
    /\ AppUnused
    /\ applied = <<>>
    /\ BufferUnused
    /\ CalcUnused
    /\ frames = 0
    /\ scheduled = <<>>
    /\ cursor = 0
    /\ next_event = 1
    /\ log = <<>>
    /\ pc = "synth"
    /\ queue = <<>>
    /\ sends = 0
    /\ send_result = "none"
    /\ rejected = {}
    /\ start_queue = <<>>

\* The synth as the program drives it: events, renders and resets, the shared
\* parameters staying as Pulse::new() set them.
NextSynth ==
    \/ \E on \in NoteOnInputs : NoteOn(on[1], on[2])
    \/ \E note \in Notes : NoteOff(note)
    \/ Render
    \/ Reset

SpecSynth == InitSynth /\ [][NextSynth]_vars

\* The same, the owner also changing the shared parameters between calls.
NextSynthAdsr ==
    \/ NextSynth
    \/ \E adsr \in AdsrPresets : SetAdsr(adsr)

SpecSynthAdsr == InitSynth /\ [][NextSynthAdsr]_vars

\* ------------------------------------------- SpecEnvelope: a single Envelope
\* The parameters adsr() is called with: times >= 0 in samples, sustain within
\* [0, 1].
EnvelopeAdsrInputs ==
    AdsrPresets \cup {[attack |-> 1, decay |-> 0, sustain |-> 0, release |-> 1],
                      [attack |-> 3, decay |-> 3, sustain |-> LevelOne \div 4,
                       release |-> 3]}

\* A call of a method other than tick() that leaves the envelope as `next`.
EnvelopeCall(next) ==
    /\ calls < MaxCalls
    /\ envelope' = next
    /\ calls' = calls + 1
    /\ UNCHANGED <<evalVars, transportVars, synthVars, bufferVars, calcVars, appVars, applied>>

EnvelopeTrigger == EnvelopeCall(EnvTrigger(envelope))
EnvelopeRelease == EnvelopeCall(EnvRelease(envelope))
EnvelopeAdsr ==
    \E a \in EnvelopeAdsrInputs :
        EnvelopeCall(EnvAdsr(envelope, a.attack, a.decay, a.sustain, a.release))
EnvelopeReset == EnvelopeCall(EnvReset(envelope))

EnvelopeTick ==
    /\ envelope' = EnvTick(envelope)
    /\ UNCHANGED <<calls, evalVars, transportVars, synthVars, bufferVars, calcVars, appVars, applied>>

InitEnvelope ==
    /\ envelope = EnvelopeDefault
    /\ calls = 0
    /\ AppUnused
    /\ applied = <<>>
    /\ BufferUnused
    /\ CalcUnused
    /\ synth = PulseNew(DefaultAdsr)
    /\ stamped = {}
    /\ ops = 0
    /\ output = OutputNew
    /\ frames = 0
    /\ scheduled = <<>>
    /\ cursor = 0
    /\ next_event = 1
    /\ log = <<>>
    /\ pc = "envelope"
    /\ queue = <<>>
    /\ sends = 0
    /\ send_result = "none"
    /\ rejected = {}
    /\ start_queue = <<>>

NextEnvelope ==
    \/ EnvelopeTrigger
    \/ EnvelopeRelease
    \/ EnvelopeAdsr
    \/ EnvelopeTick
    \/ EnvelopeReset

SpecEnvelope == InitEnvelope /\ [][NextEnvelope]_vars

\* The owner of an envelope that is not idle ticks it once per sample
\* (voice.rs:34, called for every active voice of every rendered frame), so a
\* tick that would change the envelope is taken sooner or later.
SpecEnvelopeFair ==
    InitEnvelope /\ [][NextEnvelope]_vars /\ WF_vars(EnvelopeTick)

\* ------------------------------------------------------ properties of Pulse
ActiveVoices(vs) == {i \in Voices : vs[i].envelope.state # "Idle"}
\* The voice was triggered by the latest NoteOn and has not rendered since.
JustTriggered(i) ==
    /\ synth.next_age > 0
    /\ synth.voices[i].age = synth.next_age - 1
    /\ synth.voices[i].envelope.state = "Attack"
    /\ synth.voices[i].envelope.level = 0

\* C8: a NoteOn that finds an inactive voice triggers the inactive voice of
\* lowest pool index, and the number of active voices grows by exactly one.
C8_NoteOnTakesFirstInactive ==
    [][\A on \in NoteOnInputs :
        (NoteOn(on[1], on[2]) /\ ActiveVoices(synth.voices) # Voices) =>
            LET first == Min(Voices \ ActiveVoices(synth.voices)) IN
               /\ synth'.voices[first].note = Some(on[1])
               /\ synth'.voices[first].age = synth.next_age
               /\ synth'.voices[first].envelope.state = "Attack"
               /\ ActiveVoices(synth'.voices) = ActiveVoices(synth.voices) \cup {first}
               /\ Cardinality(ActiveVoices(synth'.voices))
                    = Cardinality(ActiveVoices(synth.voices)) + 1]_vars

\* Every NoteOn so far found an inactive voice; the latest one took the last
\* voice of the pool while the lower ones were sounding.
C8_Witness ==
    /\ JustTriggered(NumVoices)
    /\ Cardinality(stamped) = NumVoices
    /\ ActiveVoices(synth.voices) = Voices
    /\ ops > synth.next_age

\* The voice a steal must take: minimum age, lowest pool index on a tie.
MinAgeVoice(vs) == Min({i \in Voices : \A j \in Voices : vs[i].age <= vs[j].age})
DistinctNotes(vs) == \A i, j \in Voices : i # j => vs[i].note # vs[j].note

\* What C9 says of every steal but for its last part.
StealTakesMinAge(note) ==
    LET victim == MinAgeVoice(synth.voices) IN
       /\ synth'.voices[victim].note = Some(note)
       /\ synth'.voices[victim].age = synth.next_age
       /\ synth'.voices[victim].envelope.state = "Attack"
       /\ \A j \in Voices \ {victim} : synth'.voices[j] = synth.voices[j]
       /\ ActiveVoices(synth'.voices) = Voices

\* C9 as stated: a NoteOn that finds every voice active steals the voice of
\* minimum age (lowest index on a tie) whatever its pitch or stage, the active
\* count stays at the pool size, and when the sounding notes were distinct no
\* voice has the evicted note's pitch afterwards.
C9_StealEvictsPitch ==
    [][\A on \in NoteOnInputs :
        (NoteOn(on[1], on[2]) /\ ActiveVoices(synth.voices) = Voices) =>
            /\ StealTakesMinAge(on[1])
            /\ DistinctNotes(synth.voices) =>
                  \A j \in Voices :
                      synth'.voices[j].note
                        # synth.voices[MinAgeVoice(synth.voices)].note]_vars

\* C9 as amended: the same, the evicted pitch being gone when the sounding
\* notes were distinct and the incoming note has another pitch than the
\* evicted one.
C9_StealEvictsOtherPitch ==
    [][\A on \in NoteOnInputs :
        (NoteOn(on[1], on[2]) /\ ActiveVoices(synth.voices) = Voices) =>
            /\ StealTakesMinAge(on[1])
            /\ (/\ DistinctNotes(synth.voices)
                /\ Some(on[1]) # synth.voices[MinAgeVoice(synth.voices)].note) =>
                  \A j \in Voices :
                      synth'.voices[j].note
                        # synth.voices[MinAgeVoice(synth.voices)].note]_vars

\* Only NoteOns so far, two more than the pool holds: the second steal took
\* the second voice, and the pitches are distinct.
C9_Witness ==
    /\ ops = synth.next_age
    /\ synth.next_age = NumVoices + 2
    /\ JustTriggered(2)
    /\ DistinctNotes(synth.voices)

\* C10: a NoteOn changes exactly one voice, which gets the incoming note and
\* velocity, phase 0, an envelope in Attack at level 0 and an age above every
\* age stamped since the last reset; the age counter grows by exactly 1 and
\* every other voice is unchanged.
C10_NoteOnChangesOneVoice ==
    [][\A on \in NoteOnInputs :
        NoteOn(on[1], on[2]) =>
            /\ synth'.next_age = synth.next_age + 1
            /\ \E i \in Voices :
                  /\ synth'.voices[i] # synth.voices[i]
                  /\ synth'.voices[i].note = Some(on[1])
                  /\ synth'.voices[i].velocity = on[2]
                  /\ synth'.voices[i].phase = 0
                  /\ synth'.voices[i].envelope.state = "Attack"
                  /\ synth'.voices[i].envelope.level = 0
                  /\ \A a \in stamped : synth'.voices[i].age > a
                  /\ \A j \in Voices \ {i} : synth'.voices[j] = synth.voices[j]]_vars

\* A NoteOn after a reset, while another voice still carries an age from
\* before the reset and has rendered (its phase is off zero).
C10_Witness ==
    /\ stamped = {0}
    /\ JustTriggered(1)
    /\ synth.voices[1].velocity = 64
    /\ \E j \in Voices : synth.voices[j].age > 0 /\ synth.voices[j].phase # 0

\* C11: a NoteOff releases every voice that carries the note and is not in
\* Release, capturing its level as the release start; every other voice, one
\* with another note or one already in Release, is left as it was, and so is
\* the rest of the synth.
C11_NoteOffReleasesMatching ==
    [][\A note \in Notes :
        NoteOff(note) =>
            /\ \A i \in Voices :
                  LET v == synth.voices[i] IN
                     IF v.note = Some(note) /\ v.envelope.state # "Release"
                        THEN synth'.voices[i] =
                                [v EXCEPT !.envelope.state = "Release",
                                          !.envelope.release_start = v.envelope.level]
                        ELSE synth'.voices[i] = v
            /\ synth'.next_age = synth.next_age
            /\ output' = output]_vars

\* The same pitch sounded on two voices and a NoteOff released both at the
\* level they had reached.
C11_Witness ==
    \E i, j \in Voices :
        /\ i # j
        /\ synth.voices[i].note = synth.voices[j].note
        /\ \A k \in {i, j} :
              /\ synth.voices[k].envelope.state = "Release"
              /\ synth.voices[k].envelope.level > 0
              /\ synth.voices[k].envelope.release_start
                    = synth.voices[k].envelope.level

EnvParams(e) == <<e.attack, e.decay, e.sustain, e.release>>
SharedParams(p) == <<p.attack, p.decay, p.sustain, p.release>>

\* C12: the envelope parameters of a voice change only in the NoteOn step that
\* triggers it, which gives it the synth's values of that moment; a step that
\* changes the synth's attack, decay, sustain or release changes no voice.
C12_AdsrCopiedAtTriggerOnly ==
    [][/\ \A i \in Voices :
             \/ EnvParams(synth'.voices[i].envelope)
                   = EnvParams(synth.voices[i].envelope)
             \/ /\ \E on \in NoteOnInputs : NoteOn(on[1], on[2])
                /\ synth'.voices[i].age = synth.next_age
                /\ synth'.voices[i].envelope.state = "Attack"
       /\ \A on \in NoteOnInputs :
             NoteOn(on[1], on[2]) =>
                /\ SharedParams(synth') = SharedParams(synth)
                /\ \E i \in Voices :
                      /\ synth'.voices[i] # synth.voices[i]
                      /\ EnvParams(synth'.voices[i].envelope) = SharedParams(synth)
       /\ \A adsr \in AdsrPresets :
             SetAdsr(adsr) =>
                /\ synth'.voices = synth.voices
                /\ SharedParams(synth') = EnvParams(adsr)]_vars

\* The parameters were changed between two NoteOns: the voice triggered first
\* still sounds with the old values, the one triggered after has the new ones.
C12_Witness ==
    \E i, j \in Voices :
        /\ VoiceIsActive(synth.voices[i]) /\ VoiceIsActive(synth.voices[j])
        /\ synth.voices[i].age < synth.voices[j].age
        /\ EnvParams(synth.voices[i].envelope) # SharedParams(synth)
        /\ EnvParams(synth.voices[i].envelope) = EnvParams(DefaultAdsr)
        /\ EnvParams(synth.voices[j].envelope) = SharedParams(synth)

\* C13: a voice that is idle has no note.
C13_IdleVoiceHasNoNote ==
    \A i \in Voices :
        ~VoiceIsActive(synth.voices[i]) => synth.voices[i].note = None

\* Every sample of the frames lo..hi-1 of the buffer is zero, on both channels.
Silent(out, lo, hi) == \A frame \in lo..(hi - 1) : out[frame] = <<0, 0>>

\* C14: after reset(), whatever the state before, every voice has no note and
\* an Idle envelope at level 0 and the age counter is 0; a render that follows
\* with no event in between writes silence to every frame of its range.
C14_ResetSilencesAll ==
    [][Reset =>
          /\ \A i \in Voices :
                /\ synth'.voices[i].note = None
                /\ synth'.voices[i].envelope.state = "Idle"
                /\ synth'.voices[i].envelope.level = 0
          /\ synth'.next_age = 0
          /\ \A r \in FrameRanges :
                Silent(OutputAfter(synth', output', r[1], r[2]), r[1], r[2])]_vars

\* A reset taken while a triggered voice was sounding and had been rendered into
\* the buffer: the voice is cleared, its other fields and the buffer still show
\* the note that was playing.
C14_Witness ==
    /\ synth.next_age = 0
    /\ \A i \in Voices :
          synth.voices[i].note = None /\ ~VoiceIsActive(synth.voices[i])
    /\ \E i \in Voices :
          synth.voices[i].frequency > 0 /\ synth.voices[i].envelope.attack > 0
    /\ \E frame \in DOMAIN output : output[frame][1] # 0

\* Every voice that sounds carries the note, and one at least does.
OnlyNoteSounding(note) ==
    /\ \E i \in Voices : VoiceIsActive(synth.voices[i])
    /\ \A i \in Voices :
          VoiceIsActive(synth.voices[i]) => synth.voices[i].note = Some(note)

\* The longest release time, in samples, among the voices of p that sound.
ReleaseFrames(p) ==
    LET times == {p.voices[i].envelope.release :
                      i \in {j \in Voices : VoiceIsActive(p.voices[j])}} \cup {0}
    IN CHOOSE t \in times : \A u \in times : u <= t

\* C16: a NoteOff for the note that is sounding, no other note being held:
\* once release-time frames or more have been rendered after it with no event
\* in between, the sample of every frame rendered from then on, which goes to
\* both channels, is zero.
C16_SilentAfterRelease ==
    [][\A note \in Notes :
          (NoteOff(note) /\ OnlyNoteSounding(note)) =>
             \A more \in 0..MaxFrames :
                FrameOut(PulseRender(synth', ReleaseFrames(synth') + more)) = 0]_vars

\* One NoteOn, frames rendered, the NoteOff at a positive level, and the frames
\* of the release rendered to the end: the voice is idle and the buffer silent.
C16_Witness ==
    /\ synth.next_age = 1
    /\ ~VoiceIsActive(synth.voices[1])
    /\ synth.voices[1].note # None
    /\ synth.voices[1].envelope.release_start > 0
    /\ ~Instant(synth.voices[1].envelope.release)
    /\ Silent(output, 0, OutputFrames)

C18_ChannelsEqual ==
    \A frame \in DOMAIN output : output[frame][1] = output[frame][2]

\* Two voices sounding at once were rendered into a frame.
C18_Witness ==
    /\ Cardinality(ActiveVoices(synth.voices)) >= 2
    /\ \A i \in Voices : VoiceIsActive(synth.voices[i]) => synth.voices[i].envelope.level > 0
    /\ \E frame \in DOMAIN output :
          output[frame][1] # 0 /\ output[frame][1] = output[frame][2]

\* A voice after n frames: one Voice::render per frame for as long as it is
\* active.
RECURSIVE Advance(_, _)
Advance(v, n) ==
    IF n = 0 \/ ~VoiceIsActive(v) THEN v ELSE Advance(VoiceRender(v), n - 1)

\* C19: render(lo..hi) leaves every frame outside lo..hi as it was, advances
\* each active voice by one sample per frame of the range, and leaves the idle
\* voices and the rest of the synth unchanged.
C19_RenderWithinRange ==
    [][\A r \in FrameRanges :
          RenderRange(r[1], r[2]) =>
             /\ \A frame \in DOMAIN output \ (r[1]..(r[2] - 1)) :
                   output'[frame] = output[frame]
             /\ \A i \in Voices :
                   /\ synth'.voices[i] = Advance(synth.voices[i], r[2] - r[1])
                   /\ ~VoiceIsActive(synth.voices[i]) =>
                         synth'.voices[i] = synth.voices[i]
             /\ synth'.next_age = synth.next_age
             /\ SharedParams(synth') = SharedParams(synth)]_vars

\* One NoteOn, a render, and then a render of frame 0 alone: frame 0 holds the
\* sample the voice gave last, frame 1 still the one of the render before.
C19_Witness ==
    /\ ops = 3
    /\ synth.next_age = 1
    /\ synth.voices[1].envelope.level > 0
    /\ output[0][1] = PulseWave(synth.voices[1].phase, synth.duty_cycle)
                        * synth.voices[1].envelope.level
                        * synth.voices[1].velocity * GAIN
    /\ output[1][1] # 0
    /\ output[1] # output[0]

\* ---------------------------------------------------- properties of Envelope
\* C15: after release(), in whatever state it is called, and with no call but
\* tick() after it, the envelope comes to Idle at level 0.
C15_ReleaseReachesIdle ==
    \A k \in 1..MaxCalls :
        (calls = k /\ EnvIsReleasing(envelope))
            ~> (calls > k \/ (EnvIsIdle(envelope) /\ envelope.level = 0))

\* C20: after any sequence of trigger, release, adsr, tick and reset calls the
\* level of the envelope lies within [0, 1], and it is 0 whenever the stage is
\* Idle.
C20_LevelWithinUnitRange ==
    /\ envelope.level >= 0
    /\ envelope.level <= LevelOne
    /\ EnvIsIdle(envelope) => envelope.level = 0

\* The attack ramp overshot 1.0 and was clamped on entering Decay, after the
\* parameters had been changed more than once.
C20_Witness ==
    /\ envelope.state = "Decay"
    /\ envelope.level = LevelOne
    /\ envelope.attack = 3
    /\ calls >= 3

\* ------------------------------------------ SpecBuffer: a single AudioBuffer
\* The channel counts a buffer is made with (main.rs:33 and the tests use 2).
ChannelCounts == {1, 2}
\* The sample a caller stores through a slice: not 0 and not a sample of the
\* source buffer.
Samples == {-2}
\* The source buffer of mix_from: the shape of `buffer`, prepared to m frames
\* and filled as the tests of buffer.rs fill theirs, every sample different
\* (1, 2, ... in channel 0, continuing in channel 1).
SourceBuffer(chs, m) ==
    [data |-> [ch \in 0..(chs - 1) |->
                  [i \in 0..(BufferMaxFrames - 1) |->
                      IF i < m THEN 1 + ch * BufferMaxFrames + i ELSE 0]],
     frames |-> m]

\* A call on the buffer that leaves it as `next`, with the history `hist`.
BufferCall(next, hist) ==
    /\ buffer_history.calls < MaxBufferCalls
    /\ buffer' = next
    /\ buffer_history' = [hist EXCEPT !.calls = buffer_history.calls + 1]
    /\ UNCHANGED <<other, channels, evalVars, transportVars, synthVars, envVars, calcVars, appVars, applied>>

AfterStore(cells) ==
    [buffer_history EXCEPT !.stored = buffer_history.stored \cup cells]

\* buffer.prepare(n), n within the allocated length.
BufferPrepare(n) ==
    /\ BufferCall(Prepare(buffer, n),
                  [buffer_history EXCEPT !.mixes = 0, !.stored = {}])
    /\ UNCHANGED interleaved

\* `buffer.channel_mut(ch)[i] = v`
StoreChannelMut ==
    \E ch \in DOMAIN buffer.data : \E i \in ChannelSlice(buffer, ch) :
    \E v \in Samples :
        /\ BufferCall(StoreSample(buffer, ch, i, v), AfterStore({<<ch, i>>}))
        /\ UNCHANGED interleaved

\* `buffer.channel_range_mut(ch, lo..hi)[i - lo] = v`
StoreChannelRangeMut ==
    \E ch \in DOMAIN buffer.data :
    \E lo, hi \in 0..Capacity(buffer) :
    \E i \in ChannelRangeSlice(buffer, ch, lo, hi) :
    \E v \in Samples :
        /\ lo <= hi
        /\ BufferCall(StoreSample(buffer, ch, i, v), AfterStore({<<ch, i>>}))
        /\ UNCHANGED interleaved

\* `let (a, b) = buffer.two_channels_mut(ch_a, ch_b); a[i] = v; b[i] = v`
\* (buffer.rs:101  `assert_ne!(ch_a, ch_b)`).
StoreTwoChannelsMut ==
    \E ch_a, ch_b \in DOMAIN buffer.data :
    \E i \in TwoChannelsSlices(buffer, ch_a, ch_b)[1] :
    \E v \in Samples :
        /\ ch_a # ch_b
        /\ BufferCall(StoreSample(StoreSample(buffer, ch_a, i, v), ch_b, i, v),
                      AfterStore({<<ch_a, i>>, <<ch_b, i>>}))
        /\ UNCHANGED interleaved

\* buffer.mix_from(&other), the caller keeping to the equal shape that
\* buffer.rs:59-60 asserts.
BufferMixFrom ==
    /\ buffer.frames = other.frames
    /\ Channels(buffer) = Channels(other)
    /\ BufferCall(MixFrom(buffer, other),
                  [buffer_history EXCEPT !.mixes = buffer_history.mixes + 1])
    /\ UNCHANGED interleaved

\* buffer.write_interleaved(&mut dest) into a fresh destination of
\* frames * channels samples, or one sample longer.
BufferWriteInterleaved ==
    \E extra \in 0..1 :
        /\ BufferCall(buffer, buffer_history)
        /\ interleaved' =
              WriteInterleaved(buffer,
                  Unfilled(buffer.frames * Channels(buffer) + extra))

InitBuffer ==
    /\ \E chs \in ChannelCounts : \E m \in 0..BufferMaxFrames :
          /\ buffer = AudioBufferNew(chs, BufferMaxFrames)
          /\ other = SourceBuffer(chs, m)
    /\ interleaved = Unfilled(0)
    /\ channels = 2
    /\ buffer_history = NoHistory
    /\ CalcUnused
    /\ envelope = EnvelopeDefault
    /\ calls = 0
    /\ AppUnused
    /\ applied = <<>>
    /\ synth = PulseNew(DefaultAdsr)
    /\ stamped = {}
    /\ ops = 0
    /\ output = OutputNew
    /\ frames = 0
    /\ scheduled = <<>>
    /\ cursor = 0
    /\ next_event = 1
    /\ log = <<>>
    /\ pc = "buffer"
    /\ queue = <<>>
    /\ sends = 0
    /\ send_result = "none"
    /\ rejected = {}
    /\ start_queue = <<>>

NextBuffer ==
    \/ \E n \in 0..BufferMaxFrames : BufferPrepare(n)
    \/ StoreChannelMut
    \/ StoreChannelRangeMut
    \/ StoreTwoChannelsMut
    \/ BufferMixFrom
    \/ BufferWriteInterleaved

SpecBuffer == InitBuffer /\ [][NextBuffer]_vars

\* ------------------------------------------------- properties of AudioBuffer
\* The <<channel, sample index>> pairs of the allocated samples.
Cells(buf) == (DOMAIN buf.data) \X (0..(Capacity(buf) - 1))

\* C21: prepare(n) sets the prepared frame count to n and zero-fills exactly
\* the samples [0, n) of every channel, leaving the samples at indices >= n as
\* they were; after it frames() = n and every sample seen through channel() is
\* 0, whatever the buffer held before.
C21_PrepareZeroFills ==
    [][\A n \in 0..BufferMaxFrames :
          BufferPrepare(n) =>
              /\ buffer'.frames = n
              /\ \A c \in Cells(buffer) :
                    buffer'.data[c[1]][c[2]] =
                        IF c[2] < n THEN 0 ELSE buffer.data[c[1]][c[2]]
              /\ \A ch \in DOMAIN buffer.data :
                    Channel(buffer', ch) = [i \in 0..(n - 1) |-> 0]]_vars

\* prepare(1) has acted on a buffer that held nonzero samples: nothing was
\* stored or mixed since, sample 0 is zero and sample 1 still holds what was
\* stored before.
C21_Witness ==
    /\ buffer.frames = 1
    /\ buffer_history.mixes = 0 /\ buffer_history.stored = {}
    /\ buffer_history.calls >= 3
    /\ \E ch \in DOMAIN buffer.data :
          buffer.data[ch][0] = 0 /\ buffer.data[ch][1] # 0

\* C22: every channel accessor (channel, channel_mut, channel_range_mut,
\* two_channels_mut) gives access only to sample indices below the prepared
\* frame count: a store through the slice an accessor returns changes no
\* sample at an index from the prepared frame count up to the capacity.
C22_AccessorsWithinPrepared ==
    [][(StoreChannelMut \/ StoreChannelRangeMut \/ StoreTwoChannelsMut) =>
          \A c \in Cells(buffer) :
              buffer'.data[c[1]][c[2]] # buffer.data[c[1]][c[2]] =>
                  c[2] < buffer.frames]_vars

\* C23: mix_from is additive and repeatable: after mix_from(other) every
\* prepared sample of self is its old value plus the matching sample of other,
\* other is unchanged, and k applications onto a zeroed destination give k
\* times the source at every sample.
C23_MixFromAdds ==
    /\ [][BufferMixFrom =>
             /\ \A c \in Cells(buffer) :
                   buffer'.data[c[1]][c[2]] =
                       IF c[2] < buffer.frames
                          THEN buffer.data[c[1]][c[2]] + other.data[c[1]][c[2]]
                          ELSE buffer.data[c[1]][c[2]]
             /\ buffer'.frames = buffer.frames
             /\ other' = other]_vars
    /\ [](\A c \in Cells(buffer) :
             (c[2] < buffer.frames /\ c \notin buffer_history.stored) =>
                 buffer.data[c[1]][c[2]] =
                     buffer_history.mixes * other.data[c[1]][c[2]])

\* The source was mixed three times into the zeroed two-frame destination.
C23_Witness ==
    /\ buffer_history.mixes = 3 /\ buffer_history.stored = {}
    /\ buffer.frames = 2 /\ Channels(buffer) = 2
    /\ buffer.data[1][1] = 3 * other.data[1][1]
    /\ other.data[1][1] # 0

\* C24: write_interleaved transposes planar to interleaved: with C channels
\* and F prepared frames, afterwards dest[f * C + c] is sample f of channel c
\* for every f < F and c < C, and the buffer is unchanged.
C24_WriteInterleavedTransposes ==
    [][BufferWriteInterleaved =>
          /\ \A f \in 0..(buffer.frames - 1) : \A c \in DOMAIN buffer.data :
                interleaved'[f * Channels(buffer) + c] = buffer.data[c][f]
          /\ buffer' = buffer]_vars

\* Two channels of two different frames each were written out, and a
\* destination one sample longer keeps its last sample.
C24_Witness ==
    /\ buffer.frames = 2 /\ Channels(buffer) = 2
    /\ DOMAIN interleaved = 0..4
    /\ interleaved[0] = buffer.data[0][0] /\ interleaved[1] = buffer.data[1][0]
    /\ interleaved[2] = buffer.data[0][1] /\ interleaved[3] = buffer.data[1][1]
    /\ Cardinality({interleaved[k] : k \in 0..3}) = 4
    /\ interleaved[4] = Stale

\* ------------------------------------------------ properties of the host copy
\* C25: at the end of every audio callback the host's interleaved output is
\* completely filled: for every frame f and host channel ch,
\* out[f * channels + ch] is the engine buffer's channel ch at frame f when
\* ch < 2 and 0 for every channel ch >= 2.
C25_HostOutputFilled ==
    (pc \in {"idle", "panicked"}) =>
        /\ \A k \in DOMAIN interleaved : interleaved[k] # Stale
        /\ \A f \in 0..(frames - 1) : \A ch \in 0..(channels - 1) :
              interleaved[f * channels + ch] =
                  IF ch < 2 THEN buffer.data[ch][f] ELSE 0

\* ------------------------------------------------------------ tick.rs: Tick
\* u64::MAX + 1
U64Limit == 2 ^ TickBits
Ticks == 0..(U64Limit - 1)

\* What a call returns is a record: panicked, or the value.
\* u64 `-` and `+`: a result outside the width panics when the build has
\* overflow checks (the debug profile) and wraps when it has none (release).
U64Sub(a, b, overflow_checks) ==
    IF a >= b THEN [panicked |-> FALSE, value |-> a - b]
    ELSE IF overflow_checks THEN [panicked |-> TRUE, value |-> 0]
    ELSE [panicked |-> FALSE, value |-> a - b + U64Limit]
U64Add(a, b, overflow_checks) ==
    IF a + b < U64Limit THEN [panicked |-> FALSE, value |-> a + b]
    ELSE IF overflow_checks THEN [panicked |-> TRUE, value |-> 0]
    ELSE [panicked |-> FALSE, value |-> a + b - U64Limit]

\* u64::saturating_sub
U64SaturatingSub(a, b) == IF a >= b THEN a - b ELSE 0

\* impl Sub for Tick (tick.rs:52-58)  `Tick(self.0 - rhs.0)`
TickSub(a, b, overflow_checks) == U64Sub(a, b, overflow_checks)
\* impl SubAssign for Tick (tick.rs:66-70)  `self.0 -= rhs.0`
TickSubAssign(a, b, overflow_checks) == U64Sub(a, b, overflow_checks)
\* Tick::saturating_sub (tick.rs:39-41)
TickSaturatingSub(a, b) == [panicked |-> FALSE, value |-> U64SaturatingSub(a, b)]

\* Tick::snap_to_grid (tick.rs:35-37)  `Tick(((self.0 + grid / 2) / grid) * grid)`:
\* the sum may leave the width, a zero grid divides by zero, and the product
\* is at most the sum.
SnapToGrid(t, grid, overflow_checks) ==
    LET sum == U64Add(t, grid \div 2, overflow_checks) IN
       IF sum.panicked \/ grid = 0 THEN [panicked |-> TRUE, value |-> 0]
       ELSE [panicked |-> FALSE, value |-> (sum.value \div grid) * grid]

\* ------------------------------------------------------- SpecTick: one Tick
\* Tick a, the Tick or grid b, and the build's overflow checks.
InitTick ==
    /\ \E a, b \in Ticks : \E checks \in BOOLEAN :
          input = [a |-> a, b |-> b, overflow_checks |-> checks, bpm |-> 120]
    /\ result = NoResult
    /\ BufferUnused
    /\ envelope = EnvelopeDefault
    /\ calls = 0
    /\ AppUnused
    /\ applied = <<>>
    /\ synth = PulseNew(DefaultAdsr)
    /\ stamped = {}
    /\ ops = 0
    /\ output = OutputNew
    /\ frames = 0
    /\ scheduled = <<>>
    /\ cursor = 0
    /\ next_event = 1
    /\ log = <<>>
    /\ pc = "tick"
    /\ queue = <<>>
    /\ sends = 0
    /\ send_result = "none"
    /\ rejected = {}
    /\ start_queue = <<>>

\* The call `op` made with the argument `arg` returned `r`.
Call(op, arg, r) ==
    /\ result' = [op |-> op, arg |-> arg, panicked |-> r.panicked, value |-> r.value]
    /\ UNCHANGED <<input, evalVars, transportVars, synthVars, envVars, bufferVars, appVars, applied>>

\* `Tick(a) - Tick(b)`
TickSubCall ==
    Call("sub", input.a, TickSub(input.a, input.b, input.overflow_checks))
\* `let mut t = Tick(a); t -= Tick(b)`
TickSubAssignCall ==
    Call("sub_assign", input.a, TickSubAssign(input.a, input.b, input.overflow_checks))
\* `Tick(a).saturating_sub(Tick(b))`
TickSaturatingSubCall ==
    Call("saturating_sub", input.a, TickSaturatingSub(input.a, input.b))
\* `Tick(a).snap_to_grid(b)`
TickSnapToGridCall ==
    Call("snap_to_grid", input.a, SnapToGrid(input.a, input.b, input.overflow_checks))
\* `snapped.snap_to_grid(b)` on the tick the last snap_to_grid returned.
TickSnapAgainCall ==
    /\ result.op = "snap_to_grid" /\ ~result.panicked
    /\ Call("snap_again", result.value,
            SnapToGrid(result.value, input.b, input.overflow_checks))

NextTick ==
    \/ TickSubCall
    \/ TickSubAssignCall
    \/ TickSaturatingSubCall
    \/ TickSnapToGridCall
    \/ TickSnapAgainCall

SpecTick == InitTick /\ [][NextTick]_vars

\* --------------------------------------------------------- properties of Tick
\* C26: a Tick is never negative: for all ticks a and b with b > a,
\* subtracting b from a with -, with -= and with saturating_sub gives the zero
\* tick, never an underflowed value or a failure.
C26_SubtractionSaturates ==
    (result.op \in {"sub", "sub_assign", "saturating_sub"} /\ input.b > input.a) =>
        ~result.panicked /\ result.value = 0

Distance(x, y) == IF x >= y THEN x - y ELSE y - x
\* m is the multiple of g nearest to t, the upper one of two equally near.
NearestMultiple(m, t, g) ==
    /\ m % g = 0
    /\ \A k \in 0..((t \div g) + 1) :
          /\ Distance(m, t) <= Distance(k * g, t)
          /\ (Distance(m, t) = Distance(k * g, t) => k * g <= m)

\* C27: for every tick t and grid g > 0, snap_to_grid(t, g) is the multiple of
\* g nearest to t, the upper multiple when t is exactly halfway between two;
\* snapping a snapped tick again changes nothing.
C27_SnapToNearest ==
    input.b > 0 =>
        /\ (result.op = "snap_to_grid" =>
               ~result.panicked /\ NearestMultiple(result.value, input.a, input.b))
        /\ (result.op = "snap_again" =>
               ~result.panicked /\ result.value = result.arg)

\* ----------------------------------------------------------- f64 arithmetic
\* A positive f64 is m * 2^e with a mantissa m of MantissaBits bits,
\* MantissaLimit / 2 <= m < MantissaLimit; zero has m = 0.
MantissaLimit == 2 ^ MantissaBits

\* The f64 nearest to the exact value (n / d) * 2^e, n >= 0 and d > 0: the
\* quotient is brought to MantissaBits bits and rounded to nearest, ties to
\* even, as every f64 operation rounds its exact result.
RECURSIVE F64Round(_, _, _)
F64Round(n, d, e) ==
    IF n = 0 THEN [m |-> 0, e |-> 0]
    ELSE IF n >= d * MantissaLimit THEN F64Round(n, 2 * d, e + 1)
    ELSE IF 2 * n < d * MantissaLimit THEN F64Round(2 * n, d, e - 1)
    ELSE LET q == n \div d
             r == n % d
             m == IF 2 * r > d \/ (2 * r = d /\ q % 2 = 1) THEN q + 1 ELSE q
         IN IF m = MantissaLimit THEN [m |-> m \div 2, e |-> e + 1]
                                 ELSE [m |-> m, e |-> e]

\* `i as f64`
F64FromInt(i) == F64Round(i, 1, 0)
\* `x * y` and `x / y`
F64Mul(x, y) == F64Round(x.m * y.m, 1, x.e + y.e)
F64Div(x, y) == F64Round(x.m, y.m, x.e - y.e)
\* `x.ceil() as u64` and `x as u64` (truncation), x >= 0
F64Ceil(x) ==
    IF x.e >= 0 THEN x.m * (2 ^ x.e)
    ELSE (x.m + (2 ^ (0 - x.e)) - 1) \div (2 ^ (0 - x.e))
F64AsU64(x) ==
    IF x.e >= 0 THEN x.m * (2 ^ x.e) ELSE x.m \div (2 ^ (0 - x.e))

\* ---------------------------------------------------------- clock.rs: Clock
\* tick.rs:3 and clock.rs:3
TICKS_PER_QUARTER == 480
\* The sample rate of the clock (clock.rs:41: 48 kHz).
SampleRate == 48000
\* The tempos of the tests of clock.rs, in BPM.
Tempos == {40, 120, 300}

\* Tick::to_quarters (tick.rs:30-32)
ToQuarters(t) == F64Div(F64FromInt(t), F64FromInt(TICKS_PER_QUARTER))

\* `bpm / 60.0`
BeatsPerSecond(bpm) == F64Div(F64FromInt(bpm), F64FromInt(60))

\* Clock::tick_to_sample (clock.rs:18-22)
TickToSample(t, bpm) ==
    LET seconds == F64Div(ToQuarters(t), BeatsPerSecond(bpm)) IN
       F64Ceil(F64Mul(seconds, F64FromInt(SampleRate)))

\* Clock::sample_to_tick (clock.rs:26-31); Tick::from_raw(raw) is Tick(raw).
SampleToTick(sample, bpm) ==
    LET seconds == F64Div(F64FromInt(sample), F64FromInt(SampleRate))
        quarters == F64Mul(seconds, BeatsPerSecond(bpm))
    IN F64AsU64(F64Mul(quarters, F64FromInt(TICKS_PER_QUARTER)))

\* --------------------------------------------------- SpecClock: the Clock
InitClock ==
    /\ \E t \in 0..MaxClockTick : \E bpm \in Tempos :
          input = [a |-> t, b |-> 0, overflow_checks |-> FALSE, bpm |-> bpm]
    /\ result = NoResult
    /\ BufferUnused
    /\ envelope = EnvelopeDefault
    /\ calls = 0
    /\ AppUnused
    /\ applied = <<>>
    /\ synth = PulseNew(DefaultAdsr)
    /\ stamped = {}
    /\ ops = 0
    /\ output = OutputNew
    /\ frames = 0
    /\ scheduled = <<>>
    /\ cursor = 0
    /\ next_event = 1
    /\ log = <<>>
    /\ pc = "clock"
    /\ queue = <<>>
    /\ sends = 0
    /\ send_result = "none"
    /\ rejected = {}
    /\ start_queue = <<>>

\* `let sample = c.tick_to_sample(tick, bpm)`
ClockTickToSample ==
    /\ result.op = "none"
    /\ Call("tick_to_sample", input.a,
            [panicked |-> FALSE, value |-> TickToSample(input.a, input.bpm)])

\* `let back = c.sample_to_tick(sample, bpm)` on the sample just returned.
ClockSampleToTick ==
    /\ result.op = "tick_to_sample"
    /\ Call("sample_to_tick", result.value,
            [panicked |-> FALSE, value |-> SampleToTick(result.value, input.bpm)])

NextClock == ClockTickToSample \/ ClockSampleToTick

SpecClock == InitClock /\ [][NextClock]_vars

\* -------------------------------------------------------- properties of Clock
\* The tick t is exactly on a sample boundary at the tempo bpm:
\* t / 480 quarters last a whole number of samples.
OnSampleBoundary(t, bpm) ==
    (t * 60 * SampleRate) % (TICKS_PER_QUARTER * bpm) = 0

\* C28: clock round trip: sample_to_tick(tick_to_sample(t, bpm), bpm) = t for
\* every tick t that falls exactly on a sample boundary, at any tempo.
C28_RoundTripOnGrid ==
    (result.op = "sample_to_tick" /\ OnSampleBoundary(input.a, input.bpm)) =>
        result.value = input.a

\* ------------------------------------------- properties of the release ramp
\* The envelope after k more ticks.
RECURSIVE TickTimes(_, _)
TickTimes(env, k) == IF k = 0 THEN env ELSE TickTimes(EnvTick(env), k - 1)

\* s is release_start / (release * sample_rate) for the envelope env, on the
\* level grid: the least s with s * release >= release_start.
IsReleaseStep(s, env) ==
    /\ s * env.release >= env.release_start
    /\ (s - 1) * env.release < env.release_start

\* C29: release() called in any state leaves the level unchanged, stores the
\* current level as release_start and enters Release; every following Release
\* tick (release time not instant) lowers the level by the constant step
\* release_start / (release * sample_rate), down to 0 at most, so the ramp to
\* 0 takes the configured release duration whatever the level at which the
\* release began: after `release` ticks the level is 0, and no earlier when
\* the step is exact on the level grid.
C29_ReleaseRampsFromCapturedLevel ==
    /\ [][EnvelopeRelease =>
             /\ envelope'.level = envelope.level
             /\ envelope'.release_start = envelope.level
             /\ envelope'.state = "Release"
             /\ (~Instant(envelope.release) /\ envelope.level > 0) =>
                   /\ TickTimes(envelope', envelope.release).level = 0
                   /\ (envelope.level % envelope.release = 0 =>
                          \A k \in 0..(envelope.release - 1) :
                              TickTimes(envelope', k).level > 0)]_vars
    /\ [][(EnvelopeTick /\ envelope.state = "Release" /\ ~Instant(envelope.release)) =>
             /\ \E s \in 0..LevelOne :
                   /\ IsReleaseStep(s, envelope)
                   /\ envelope'.level =
                         IF envelope.level > s THEN envelope.level - s ELSE 0
             /\ envelope'.release_start = envelope.release_start
             /\ envelope'.release = envelope.release]_vars

\* A release that began below full level, during the attack, is part way down
\* its ramp.
C29_Witness ==
    /\ envelope.state = "Release" /\ ~Instant(envelope.release)
    /\ 0 < envelope.release_start /\ envelope.release_start < LevelOne
    /\ 0 < envelope.level /\ envelope.level < envelope.release_start
    /\ envelope.sustain > envelope.release_start

\* C30: in Release with a release time that is not instant, the tick on which
\* the level reaches or crosses 0 sets the level to 0 and moves the envelope to
\* Idle on that same tick.
C30_IdleOnReachingZero ==
    [][(/\ EnvelopeTick
        /\ envelope.state = "Release" /\ ~Instant(envelope.release)
        /\ envelope.level > 0
        /\ envelope.level - StepOf(envelope.release_start, envelope.release) <= 0) =>
            (envelope'.level = 0 /\ envelope'.state = "Idle")]_vars

\* ------------------------------------------- properties of the envelope stages
\* C31: in Attack with an attack time that is not instant, each tick raises the
\* level by 1 / (attack * sample_rate), and the tick on which the level reaches
\* or exceeds 1 sets the level to 1 and moves the envelope to Decay on that
\* same tick.
C31_DecayOnReachingOne ==
    [][(EnvelopeTick /\ envelope.state = "Attack" /\ ~Instant(envelope.attack)) =>
          LET l == envelope.level + StepOf(LevelOne, envelope.attack) IN
          IF l >= LevelOne
             THEN envelope'.level = LevelOne /\ envelope'.state = "Decay"
             ELSE envelope'.level = l /\ envelope'.state = "Attack"]_vars

\* C32: whenever the envelope is in Sustain its level equals the sustain
\* parameter, also when Sustain was entered by the Decay ramp crossing the
\* sustain level, and tick() leaves stage and level unchanged until release()
\* is called.  Stated on the ticks: the tick that moves Decay to Sustain leaves
\* the level at the sustain parameter, and a tick in Sustain changes nothing.
C32_SustainHoldsSustainLevel ==
    [][EnvelopeTick =>
          /\ (envelope.state = "Decay" /\ envelope'.state = "Sustain") =>
                envelope'.level = envelope'.sustain
          /\ envelope.state = "Sustain" => envelope' = envelope]_vars

\* The stage changes a single tick() can make.
TickStageChanges ==
    {<<"Attack", "Decay">>, <<"Decay", "Sustain">>, <<"Release", "Idle">>}

\* C33: the stage changes only along Idle -> Attack -> Decay -> Sustain ->
\* Release -> Idle: a tick() keeps the stage or moves Attack to Decay, Decay to
\* Sustain or Release to Idle; Idle is a fixed point of tick(); only trigger()
\* enters Attack and only release() enters Release; and with sustain < 1 a
\* triggered envelope that is ticked with no other call reaches Sustain.
C33_StagesFollowCycle ==
    /\ [][EnvelopeTick =>
             \/ envelope'.state = envelope.state
             \/ <<envelope.state, envelope'.state>> \in TickStageChanges]_vars
    /\ [][(EnvelopeTick /\ envelope.state = "Idle") => envelope' = envelope]_vars
    /\ [][(envelope.state # "Attack" /\ envelope'.state = "Attack") =>
             EnvelopeTrigger]_vars
    /\ [][(envelope.state # "Release" /\ envelope'.state = "Release") =>
             EnvelopeRelease]_vars
    /\ \A k \in 1..MaxCalls :
          (/\ calls = k
           /\ envelope.state \in {"Attack", "Decay"}
           /\ envelope.sustain < LevelOne)
              ~> (calls > k \/ envelope.state = "Sustain")

\* A triggered envelope with ramps that are not instant and sustain < 1 has
\* been ticked through Attack and Decay into Sustain.
C33_Witness ==
    /\ envelope.state = "Sustain"
    /\ ~Instant(envelope.attack) /\ ~Instant(envelope.decay)
    /\ envelope.sustain < LevelOne
    /\ calls = 2

\* C34: a stage whose time parameter is below 1e-5 s is instantaneous: one tick
\* in Attack sets level 1 and enters Decay, one tick in Decay sets the level to
\* the sustain parameter and enters Sustain, one tick in Release sets level 0
\* and enters Idle, with no division by the time parameter.
C34_InstantStages ==
    [][EnvelopeTick =>
          /\ (envelope.state = "Attack" /\ Instant(envelope.attack)) =>
                (envelope'.level = LevelOne /\ envelope'.state = "Decay")
          /\ (envelope.state = "Decay" /\ Instant(envelope.decay)) =>
                (envelope'.level = envelope.sustain /\ envelope'.state = "Sustain")
          /\ (envelope.state = "Release" /\ Instant(envelope.release)) =>
                (envelope'.level = 0 /\ envelope'.state = "Idle")]_vars

\* With all times instant, trigger(), a tick, release() at level 1 and a tick
\* have brought the envelope to Idle.
C34_Witness ==
    /\ envelope.state = "Idle" /\ envelope.level = 0
    /\ envelope.release_start = LevelOne
    /\ Instant(envelope.attack) /\ Instant(envelope.release)
    /\ calls = 2

\* ------------------------------------------------------------- app.rs: App
\* The keys of the messages the App receives: the two mode keys, three keys of
\* the typing keyboard ("a" and "A" are one key with and without shift) and a
\* key that is no note.
Keys == {"n", "Escape", "a", "A", "s", "x"}
NoteC4 == 1
NoteD4 == 2
VelocityMax == 127

\* App::key_to_note (app.rs:50-88); the character is lower-cased first.
KeyToNote(key) ==
    CASE key \in {"a", "A"} -> Some(NoteC4)
      [] key = "s" -> Some(NoteD4)
      [] OTHER -> None

MidiNoteOn(note, velocity) == [kind |-> "NoteOn", note |-> note, velocity |-> velocity]
MidiNoteOff(note) == [kind |-> "NoteOff", note |-> note, velocity |-> 0]
RoutedEvent(track_id, event) == [track_id |-> track_id, event |-> event]

\* HashSet::insert and HashSet::remove: the new set, and whether the value was
\* newly inserted / was present.
Insert_always(set, x) == [set |-> set \cup {x}, changed |-> TRUE]
Insert(set, x) == [set |-> set \cup {x}, changed |-> x \notin set]
Remove(set, x) == [set |-> set \ {x}, changed |-> x \in set]

\* `let _ = self.control.send_midi(TrackId(0), midi)` (app.rs:92, 104, 114):
\* the result is dropped.
AppSendMidi(midi) ==
    /\ sends < MaxSends
    /\ LET r == Push(queue, RoutedEvent(0, midi)) IN
          /\ queue' = r.queue
          /\ send_result' = r.result
    /\ sent' = RoutedEvent(0, midi)
    /\ sends' = sends + 1

AppSendsNothing == UNCHANGED <<queue, send_result, sent, sends>>

\* App::note_on (app.rs:90-100).
AppNoteOn(note) ==
    LET r == Insert(active_notes, note) IN
       /\ active_notes' = r.set
       /\ IF r.changed THEN AppSendMidi(MidiNoteOn(note, VelocityMax))
                       ELSE AppSendsNothing

\* App::note_off (app.rs:102-108).
AppNoteOff(note) ==
    LET r == Remove(active_notes, note) IN
       /\ active_notes' = r.set
       /\ IF r.changed THEN AppSendMidi(MidiNoteOff(note)) ELSE AppSendsNothing

AppRest == UNCHANGED <<rejected, start_queue, evalVars, synthVars, envVars,
                       bufferVars, calcVars, applied>>

\* App::update(Message::KeyPressed(key, _)) (app.rs:126-145).  For Escape the
\* handler goes on into all_notes_off.
KeyPressed(key) ==
    /\ app_pc = "update"
    /\ CASE key = "n" ->
              /\ mode' = "Play"
              /\ UNCHANGED <<active_notes, app_pc>>
              /\ AppSendsNothing
         [] key = "Escape" ->
              /\ mode' = "Normal"
              /\ app_pc' = "all_notes_off"
              /\ UNCHANGED active_notes
              /\ AppSendsNothing
         [] OTHER ->
              /\ UNCHANGED <<mode, app_pc>>
              /\ IF mode = "Play" /\ KeyToNote(key) # None
                    THEN AppNoteOn(KeyToNote(key)[1])
                    ELSE UNCHANGED active_notes /\ AppSendsNothing
    /\ AppRest

\* App::update(Message::KeyReleased(key, _)) (app.rs:146-152).
KeyReleased(key) ==
    /\ app_pc = "update"
    /\ UNCHANGED <<mode, app_pc>>
    /\ IF mode = "Play" /\ KeyToNote(key) # None
          THEN AppNoteOff(KeyToNote(key)[1])
          ELSE UNCHANGED active_notes /\ AppSendsNothing
    /\ AppRest

\* One iteration of `for note in self.active_notes.drain()` (app.rs:113-117);
\* a HashSet yields its elements in no fixed order.  The audio thread may pop
\* between two iterations.
AllNotesOffNote(note) ==
    /\ app_pc = "all_notes_off"
    /\ note \in active_notes
    /\ active_notes' = active_notes \ {note}
    /\ AppSendMidi(MidiNoteOff(note))
    /\ UNCHANGED <<mode, app_pc>>
    /\ AppRest

\* The set is drained: all_notes_off and update return (app.rs:118, 135).
AllNotesOffReturn ==
    /\ app_pc = "all_notes_off"
    /\ active_notes = {}
    /\ app_pc' = "update"
    /\ UNCHANGED <<mode, active_notes>>
    /\ AppSendsNothing
    /\ AppRest

\* consumer.pop() on the audio thread (main.rs:46), whenever a callback runs.
ConsumerPop ==
    /\ queue # <<>>
    /\ queue' = Tail(queue)
    /\ UNCHANGED <<sends, send_result, rejected, start_queue, evalVars, synthVars,
                   envVars, bufferVars, calcVars, appVars, applied>>

\* ------------------------------------ SpecApp: the App and the event queue
InitApp ==
    /\ AppUnused
    /\ applied = <<>>
    /\ queue = <<>>
    /\ sends = 0
    /\ send_result = "none"
    /\ rejected = {}
    /\ start_queue = <<>>
    /\ pc = "app"
    /\ frames = 0
    /\ scheduled = <<>>
    /\ cursor = 0
    /\ next_event = 1
    /\ log = <<>>
    /\ synth = PulseNew(DefaultAdsr)
    /\ stamped = {}
    /\ ops = 0
    /\ output = OutputNew
    /\ envelope = EnvelopeDefault
    /\ calls = 0
    /\ BufferUnused
    /\ CalcUnused

NextApp ==
    \/ \E key \in Keys : KeyPressed(key)
    \/ \E key \in Keys : KeyReleased(key)
    \/ \E note \in {NoteC4, NoteD4} : AllNotesOffNote(note)
    \/ AllNotesOffReturn
    \/ ConsumerPop

SpecApp == InitApp /\ [][NextApp]_vars

\* ------------------------------------------------------ properties of the App
\* C35: leaving play mode silences everything: when Escape is handled, a
\* NoteOff reaches the audio thread for every note held at that moment
\* (send_midi takes it into the queue the audio thread drains) and
\* active_notes becomes empty, whatever the fill level of the queue.
C35_EscapeSilencesHeldNotes ==
    /\ [][\A note \in {NoteC4, NoteD4} :
             AllNotesOffNote(note) =>
                /\ send_result' = "Ok"
                /\ queue' = Append(queue, RoutedEvent(0, MidiNoteOff(note)))]_vars
    /\ [][AllNotesOffReturn => active_notes' = {}]_vars

\* The step calls send_midi with the event midi.
Sends(midi) == sends' = sends + 1 /\ sent' = RoutedEvent(0, midi)

\* C36: key repeat does not flood NoteOn: in Play mode, whatever the sequence
\* of KeyPressed and KeyReleased messages, a NoteOn is sent for a note only
\* when the note is not held, and the note is held from then on until a
\* NoteOff is sent for it, so at most one NoteOn is sent between the press and
\* the release of a note; a NoteOff is sent for a note only if the note is in
\* active_notes, and takes it out (one NoteOff per held note).
C36_NoKeyRepeatFlood ==
    /\ [][\A note \in {NoteC4, NoteD4} :
             /\ Sends(MidiNoteOn(note, VelocityMax)) =>
                   /\ mode = "Play"
                   /\ note \notin active_notes
                   /\ note \in active_notes'
             /\ Sends(MidiNoteOff(note)) =>
                   /\ note \in active_notes
                   /\ note \notin active_notes'
             /\ (note \in active_notes /\ note \notin active_notes') =>
                   Sends(MidiNoteOff(note))
             /\ (note \notin active_notes /\ note \in active_notes') =>
                   Sends(MidiNoteOn(note, VelocityMax))]_vars
    /\ [][\A key \in Keys :
             (/\ KeyPressed(key)
              /\ mode = "Play"
              /\ KeyToNote(key) # None
              /\ KeyToNote(key)[1] \in active_notes) =>
                 (sends' = sends /\ queue' = queue)]_vars

\* In Play mode a note was pressed, released and pressed again: three events
\* were sent, the last one the second NoteOn, and the note is held.
C36_Witness ==
    /\ mode = "Play"
    /\ sends = 3
    /\ sent = RoutedEvent(0, MidiNoteOn(NoteC4, VelocityMax))
    /\ active_notes = {NoteC4}

\* ------------------------------- properties of the transport under concurrency
\* The host keeps calling the callback, and the audio thread keeps running it
\* once it has started (main.rs:37-69); nothing is assumed of the control
\* thread.
AudioThread ==
    \/ CallbackStart
    \/ DrainPop
    \/ DrainDone
    \/ EvalEvent
    \/ EvalReturnToCallback
    \/ CopyOut

SpecCallbackFair ==
    InitCallback /\ [][NextCallback]_vars /\ WF_vars(AudioThread)

\* C37: for every interleaving of the control thread's send_midi calls with
\* the audio callback's drain, each event whose send returned Ok is applied to
\* the synth exactly once, the events are applied in the order they were sent
\* (the k-th send carries event k), and no event whose send returned
\* BufferFull is ever applied.
C37_AppliedOnceInOrder ==
    /\ [](\A i, j \in DOMAIN applied : i < j => applied[i] < applied[j])
    /\ [](\A e \in rejected : ~InSeq(e, applied))
    /\ \A e \in 1..MaxSends :
          (sends >= e /\ e \notin rejected) ~> InSeq(e, applied)

\* C38: the drain phase of every callback ends and rendering starts, also
\* while the control thread keeps sending: the number of events popped in one
\* callback (they are the entries of `scheduled`) is bounded by the queue
\* capacity.
C38_DrainBoundedByCapacity ==
    /\ [](Len(scheduled) <= QueueCapacity)
    /\ (pc = "drain") ~> (pc = "eval")

\* ------------------------------------------------ properties of the voice ages
\* C39: in every reachable state of the synth (any sequence of NoteOn, NoteOff,
\* render and reset; a reset sets the age counter back to 0 and leaves the
\* voices' ages as they are), any two voices that are active at the same time
\* have different ages and every active voice's age is below the age counter,
\* so the voice a steal takes is the only one of minimum age: the least
\* recently triggered active voice.
C39_ActiveAgesDistinct ==
    /\ [](\A i, j \in ActiveVoices(synth.voices) :
             i # j => synth.voices[i].age # synth.voices[j].age)
    /\ [](\A i \in ActiveVoices(synth.voices) : synth.voices[i].age < synth.next_age)
    /\ [][\A on \in NoteOnInputs :
             (NoteOn(on[1], on[2]) /\ ActiveVoices(synth.voices) = Voices) =>
                \E i \in Voices :
                   /\ \A j \in Voices \ {i} : synth.voices[i].age < synth.voices[j].age
                   /\ synth'.voices[i].age = synth.next_age
                   /\ \A j \in Voices \ {i} : synth'.voices[j] = synth.voices[j]]_vars

\* After a reset a voice is active again while an idle voice still carries an
\* age from before the reset, not below the age counter.
C39_Witness ==
    /\ synth.next_age > 0
    /\ ActiveVoices(synth.voices) # {}
    /\ \E j \in Voices \ ActiveVoices(synth.voices) :
          synth.voices[j].age >= synth.next_age

\* C40: a NoteOff never makes an inactive voice active: in every reachable
\* state of the synth, handle_event(NoteOff) does not increase the number of
\* active voices, also when its note equals the last note of a voice whose
\* release has already finished.
C40_NoteOffActivatesNoVoice ==
    [][\A note \in Notes :
          NoteOff(note) =>
             /\ ActiveVoices(synth'.voices) \subseteq ActiveVoices(synth.voices)
             /\ Cardinality(ActiveVoices(synth'.voices))
                   <= Cardinality(ActiveVoices(synth.voices))]_vars

====
